---- MODULE Spec2Model ----
(***************************************************************************)
(* The pending-conversion queue of bevy_skybox_cubemap (src/src/lib.rs):   *)
(* SkyboxTextureConversion::make_array pushes a texture handle, the system *)
(* convert_skyboxes walks the queue once per frame and reinterprets every  *)
(* texture that the asset store already holds as a 6-layer array.          *)
(***************************************************************************)
EXTENDS Integers, Sequences, FiniteSets, TLC

\* ---------------------------------------------------------------- bounds
NumRefs == 3            \* distinct texture handles
MaxEnqueues == 3        \* make_array calls in one behaviour

Refs == 1..NumRefs

\* ------------------------------------------------------ program constants
NoTexture == 0          \* Assets::get_mut returning None
Stacked == 1            \* depth_or_array_layers of a freshly loaded N x 6N image
SkyboxLayers == 6       \* the argument of reinterpret_stacked_2d_as_array

VARIABLES
    handles,     \* SkyboxTextureConversion.handles : Vec<Handle<Image>>
    textures,    \* Assets<Image>: NoTexture, or the image's array layer count
    enqueued,    \* history: make_array calls per handle
    invoked,     \* history: reinterpret_stacked_2d_as_array calls per texture
    converted,   \* history: calls of it that returned (did not panic)
    prev,        \* history: the queue at the start of the latest pass
    looked,      \* history: handles looked up (get_mut) by the latest pass, in order
    lastOp,      \* history: the operation that produced this state
    panicked     \* the latest pass panicked inside the conversion primitive

vars == <<handles, textures, enqueued, invoked, converted, prev, looked, lastOp, panicked>>

\* ---------------------------------------------------------------- helpers
RECURSIVE Count(_, _)
Count(h, seq) ==
    IF seq = <<>> THEN 0
    ELSE (IF Head(seq) = h THEN 1 ELSE 0) + Count(h, Tail(seq))

RECURSIVE Sum(_, _)
Sum(f, S) ==
    IF S = {} THEN 0
    ELSE LET x == CHOOSE y \in S : TRUE IN f[x] + Sum(f, S \ {x})

IsPrefix(p, seq) == Len(p) <= Len(seq) /\ SubSeq(seq, 1, Len(p)) = p

Resident(t, h) == t[h] # NoTexture

\* Mutant: a push that drops a handle that is already pending.
push_dedup(vec, handle) ==
    IF \E i \in 1..Len(vec) : vec[i] = handle THEN vec ELSE Append(vec, handle)

\* Mutant: a push that appends the handle twice.
push_twice(vec, handle) == Append(Append(vec, handle), handle)

\* Vec::push
push(vec, handle) == Append(vec, handle)

\* Mutant: Vec::swap_remove, the last entry moves into the hole.
remove_swap(vec, index) ==
    IF index + 1 = Len(vec) THEN SubSeq(vec, 1, index)
    ELSE SubSeq(vec, 1, index) \o <<vec[Len(vec)]>> \o SubSeq(vec, index + 2, Len(vec) - 1)

\* Mutant: the front entry is removed instead of the one at index.
remove_front(vec, index) == SubSeq(vec, 2, Len(vec))

\* Vec::remove(index), index counted from 0: the later elements shift left
remove(vec, index) == SubSeq(vec, 1, index) \o SubSeq(vec, index + 2, Len(vec))

\* Mutant: the walk stops one entry early.
InRange_short(vec, index) == index + 1 < Len(vec)

\* Vec::get(index), index counted from 0: None past the end
InRange(vec, index) == index < Len(vec)

\* Mutant: a handle whose image is not loaded yet is handed out as a texture.
get_mut_unloaded(assets, handle) ==
    IF assets[handle] = NoTexture THEN Stacked ELSE assets[handle]

\* Assets<Image>::get_mut: the texture if it is loaded, else None
get_mut(assets, handle) == assets[handle]

\* Mutant: the None arm steps over the next entry.
next_index_skip(index) == index + 2

\* index += 1 of the None arm
next_index(index) == index + 1

\* Mutant: no check that the texture is still a stacked 2d image.
reinterpret_unchecked(texture, layers) == [panic |-> FALSE, texture |-> layers]

\* Image::reinterpret_stacked_2d_as_array(layers): a stacked 2d image becomes an
\* array of `layers` layers; it panics on a texture that was already reinterpreted.
reinterpret_stacked_2d_as_array(texture, layers) ==
    IF texture = Stacked
    THEN [panic |-> FALSE, texture |-> layers]
    ELSE [panic |-> TRUE, texture |-> texture]

\* The None arm: the entry stays in place and the walk moves on.
none_arm(s) == [s EXCEPT !.index = next_index(@)]

\* Mutant: the texture is converted but its entry stays in the queue, the walk
\* moving past it.
some_arm_keeps(s, handle, texture) ==
    LET r == reinterpret_stacked_2d_as_array(texture, SkyboxLayers)
    IN  [s EXCEPT !.index = @ + 1,
                  !.invoked[handle] = @ + 1,
                  !.textures[handle] = r.texture,
                  !.converted[handle] = IF r.panic THEN @ ELSE @ + 1,
                  !.panicked = r.panic]

\* Mutant: the index is advanced after a removal as well.
some_arm_advances(s, handle, texture) ==
    LET r == reinterpret_stacked_2d_as_array(texture, SkyboxLayers)
    IN  [s EXCEPT !.handles = remove(@, s.index),
                  !.index = @ + 1,
                  !.invoked[handle] = @ + 1,
                  !.textures[handle] = r.texture,
                  !.converted[handle] = IF r.panic THEN @ ELSE @ + 1,
                  !.panicked = r.panic]

\* The Some arm: the entry is taken out of the queue (the index stays where it
\* is), then the texture is reinterpreted; a panic there unwinds out of the system.
some_arm(s, handle, texture) ==
    LET r == reinterpret_stacked_2d_as_array(texture, SkyboxLayers)
    IN  [s EXCEPT !.handles = remove(@, s.index),
                  !.invoked[handle] = @ + 1,
                  !.textures[handle] = r.texture,
                  !.converted[handle] = IF r.panic THEN @ ELSE @ + 1,
                  !.panicked = r.panic]

\* The while-let loop of convert_skyboxes on the loop state s.
RECURSIVE convert_loop(_)
convert_loop(s) ==
    IF s.panicked \/ ~InRange(s.handles, s.index) THEN s
    ELSE LET handle == s.handles[s.index + 1]
             texture == get_mut(s.textures, handle)
             seen == [s EXCEPT !.looked = Append(@, handle)]
         IN  IF texture = NoTexture
             THEN convert_loop(none_arm(seen))
             ELSE convert_loop(some_arm(seen, handle, texture))

\* One whole pass from the given queue and asset store.
PassFrom(q, t, inv, conv) ==
    convert_loop([index |-> 0, handles |-> q, textures |-> t, looked |-> <<>>,
                  invoked |-> inv, converted |-> conv, panicked |-> FALSE])

\* ------------------------------------------------------------------ state
\* The state was produced by a pass ("convert_again": by a pass that directly
\* followed another pass).
AfterPass == lastOp \in {"convert", "convert_again"}

Init ==
    /\ handles = <<>>
    /\ textures = [h \in Refs |-> NoTexture]
    /\ enqueued = [h \in Refs |-> 0]
    /\ invoked = [h \in Refs |-> 0]
    /\ converted = [h \in Refs |-> 0]
    /\ prev = <<>>
    /\ looked = <<>>
    /\ lastOp = "init"
    /\ panicked = FALSE

\* SkyboxTextureConversion::make_array(handle)
make_array(handle) ==
    /\ ~panicked
    /\ Sum(enqueued, Refs) < MaxEnqueues
    /\ handles' = push(handles, handle)
    /\ enqueued' = [enqueued EXCEPT ![handle] = @ + 1]
    /\ lastOp' = "make_array"
    /\ UNCHANGED <<textures, invoked, converted, prev, looked, panicked>>

\* The asset server finishes loading the image behind a handle.
AssetLoaded(handle) ==
    /\ ~panicked
    /\ textures[handle] = NoTexture
    /\ textures' = [textures EXCEPT ![handle] = Stacked]
    /\ lastOp' = "loaded"
    /\ UNCHANGED <<handles, enqueued, invoked, converted, prev, looked, panicked>>

\* The system convert_skyboxes, one run per frame.
convert_skyboxes ==
    /\ ~panicked
    /\ LET s == PassFrom(handles, textures, invoked, converted)
       IN  /\ handles' = s.handles
           /\ textures' = s.textures
           /\ invoked' = s.invoked
           /\ converted' = s.converted
           /\ looked' = s.looked
           /\ panicked' = s.panicked
    /\ prev' = handles
    /\ lastOp' = IF AfterPass THEN "convert_again" ELSE "convert"
    /\ UNCHANGED enqueued

Next ==
    \/ \E handle \in Refs : make_array(handle)
    \/ \E handle \in Refs : AssetLoaded(handle)
    \/ convert_skyboxes

Spec == Init /\ [][Next]_vars

TypeOK ==
    /\ handles \in Seq(Refs)
    /\ textures \in [Refs -> {NoTexture, Stacked, SkyboxLayers}]
    /\ panicked \in BOOLEAN

\* ------------------------------------------------------------------ C1
\* The pass at hand takes the once-enqueued, loaded handle r out of the queue and
\* converts its texture.
C1_Taken(r) ==
    Count(r, handles') = 0 /\ converted'[r] = 1 /\ textures'[r] = SkyboxLayers

C1_Ready(r) == Resident(textures, r) /\ Count(r, handles) = 1

C1_StaysOne(r) ==
    /\ converted'[r] <= 1
    /\ converted'[r] >= converted[r]
    /\ (converted[r] = 1 => Count(r, handles') = 0 /\ textures'[r] = SkyboxLayers)

C2_ConvertsOnlyResident ==
    [][\A r \in Refs :
          /\ invoked'[r] > invoked[r] => (Resident(textures, r) /\ Resident(textures', r))
          /\ ~Resident(textures', r) => (invoked'[r] = 0 /\ converted'[r] = 0)]_vars

\* A pass converted one texture while another handle stayed pending, not loaded.
C2_Witness ==
    /\ AfterPass
    /\ \E r \in Refs : Count(r, handles) > 0 /\ ~Resident(textures, r) /\ invoked[r] = 0
    /\ \E r \in Refs : Count(r, prev) > 0 /\ Count(r, handles) = 0 /\ converted[r] = 1

C4_NeverResidentStaysPending ==
    [][\A r \in Refs : ~Resident(textures', r) =>
          /\ Count(r, handles') >= Count(r, handles)
          /\ Count(r, handles') = enqueued'[r]
          /\ invoked'[r] = 0
          /\ (panicked' => looked'[Len(looked')] # r)]_vars

\* Two passes in a row have looked at an entry whose texture is not loaded, with
\* a loaded entry in front of it being removed by the first of them, and the
\* entry is still pending.
C4_Witness ==
    /\ lastOp = "convert_again"
    /\ \E r \in Refs :
          /\ ~Resident(textures, r)
          /\ Count(r, handles) > 0 /\ Count(r, looked) > 0
          /\ handles[1] # r
    /\ \E r \in Refs : converted[r] > 0 /\ Count(r, handles) = 0

\* ------------------------------------------------------------------ C5
\* C5: a pass that directly follows a pass (no make_array, no load in between)
\* changes neither the queue nor any texture, invokes the primitive on nothing,
\* and does not panic: running maintenance twice ends where running it once does.
C5_SecondPassChangesNothing ==
    [][(convert_skyboxes /\ AfterPass) =>
          /\ handles' = handles
          /\ textures' = textures
          /\ invoked' = invoked
          /\ converted' = converted
          /\ ~panicked']_vars

\* A second pass in a row has run after a handle that was enqueued once had its
\* loaded texture converted.
C5_Witness ==
    /\ lastOp = "convert_again"
    /\ prev = handles
    /\ \E r \in Refs :
          /\ enqueued[r] = 1 /\ converted[r] = 1 /\ textures[r] = SkyboxLayers
          /\ Count(r, handles) = 0

\* ------------------------------------------------------------------ C6
\* The run of C6 on top of the queue q and asset store t: `first` and `second`
\* are enqueued in that order, `early` is loaded, a pass runs, `late` is loaded,
\* a pass runs.  The result is the loop state after each of the two passes.
C6_Run(q, t, first, second, early, late) ==
    LET q2 == push(push(q, first), second)
        p1 == PassFrom(q2, [t EXCEPT ![early] = Stacked], invoked, converted)
        p2 == PassFrom(p1.handles, [p1.textures EXCEPT ![late] = Stacked],
                       p1.invoked, p1.converted)
    IN  <<p1, p2>>

C6_Fresh(r) == enqueued[r] = 0 /\ ~Resident(textures, r)

C6_EachAtItsOwnPass(run, r1, r2) ==
    /\ run[1].converted[r2] = 1 /\ Count(r2, run[1].handles) = 0
    /\ run[1].converted[r1] = 0 /\ Count(r1, run[1].handles) = 1
    /\ run[2].converted[r2] = 1 /\ Count(r2, run[2].handles) = 0
    /\ run[2].converted[r1] = 1 /\ Count(r1, run[2].handles) = 0
    /\ run[2].textures[r1] = SkyboxLayers /\ run[2].textures[r2] = SkyboxLayers

C6_SameOutcome(a, b) ==
    /\ a[2].handles = b[2].handles
    /\ a[2].textures = b[2].textures
    /\ a[2].converted = b[2].converted
    /\ a[2].invoked = b[2].invoked
    /\ a[2].panicked = b[2].panicked

C7_AsStated == \A r \in Refs : Count(r, handles) <= 1

\* C7 (amended): the queue does not de-duplicate; a handle is in the queue at
\* most as many times as make_array has been called for it, hence at most once
\* as long as the caller enqueues it at most once.
C7_AtMostOncePerEnqueue ==
    \A r \in Refs :
        /\ Count(r, handles) <= enqueued[r]
        /\ (enqueued[r] <= 1 => Count(r, handles) <= 1)

\* One handle is pending once after one make_array call, another one twice
\* after two calls.
C7_Witness ==
    /\ \E r \in Refs : enqueued[r] = 1 /\ Count(r, handles) = 1
    /\ \E r \in Refs : enqueued[r] = 2 /\ Count(r, handles) = 2

\* ------------------------------------------------------------------ C8
\* The state of a handle as the queue sees it: 0 Unrequested, 1 Pending (not
\* loaded), 2 Pending (loaded), 3 Converted (texture converted, handle not queued).
C8_Phase(r, q, t, conv) ==
    IF Count(r, q) > 0 THEN (IF Resident(t, r) THEN 2 ELSE 1)
    ELSE IF conv[r] > 0 THEN 3 ELSE 0

\* C8 as stated: a handle only moves forward through the phases, and Converted is
\* terminal: no make_array or pass makes it pending again or converts it again.
C8_AsStated ==
    [][\A r \in Refs :
          LET before == C8_Phase(r, handles, textures, converted)
              after == C8_Phase(r, handles', textures', converted')
          IN  /\ after >= before
              /\ before = 3 => (after = 3 /\ converted'[r] = converted[r])]_vars

\* C8 (amended): a handle only moves forward through the phases, except that
\* make_array on a Converted handle makes it Pending (loaded) again; no pass moves
\* a Converted handle or touches its texture, and no texture is ever converted a
\* second time: the pass that meets the re-enqueued handle removes it and panics.
C8_ConvertedLeftOnlyByEnqueue ==
    [][\A r \in Refs :
          LET before == C8_Phase(r, handles, textures, converted)
              after == C8_Phase(r, handles', textures', converted')
          IN  /\ \/ after >= before
                 \/ /\ before = 3 /\ after = 2
                    /\ enqueued'[r] = enqueued[r] + 1
              /\ converted'[r] >= converted[r]
              /\ converted'[r] <= 1
              /\ (convert_skyboxes /\ before = 3) =>
                    (after = 3 /\ textures'[r] = textures[r])
              /\ (convert_skyboxes /\ converted[r] = 1 /\ Count(r, looked') > 0) =>
                    (panicked' /\ textures'[r] = SkyboxLayers)]_vars

\* make_array has just been called for a handle whose texture is converted.
C8_Witness ==
    /\ lastOp = "make_array"
    /\ \E r \in Refs :
          /\ enqueued[r] = 2 /\ converted[r] = 1 /\ textures[r] = SkyboxLayers
          /\ Count(r, handles) = 1

\* ------------------------------------------------------------------ C9
\* A make_array call appends exactly one entry, the handle it was given, and
\* raises no error.
C9_Appends ==
    \A h \in Refs : enqueued'[h] = enqueued[h] + 1 =>
        /\ Len(handles') = Len(handles) + 1
        /\ handles'[Len(handles')] = h
        /\ SubSeq(handles', 1, Len(handles)) = handles
        /\ ~panicked'

\* The pass at hand meets both entries of the loaded, unconverted handle r.
C9_TwicePending(r) ==
    /\ convert_skyboxes
    /\ Resident(textures, r) /\ converted[r] = 0
    /\ Count(r, handles) = 2 /\ Count(r, looked') = 2

\* C9 as stated: every make_array call appends one entry, and a pass that meets
\* both entries of a handle that was enqueued twice converts its loaded texture
\* twice and removes both entries.
C9_AsStated ==
    [][/\ C9_Appends
       /\ \A r \in Refs : C9_TwicePending(r) =>
             (converted'[r] = 2 /\ Count(r, handles') = 0)]_vars

\* C9 (amended): every make_array call appends one entry and raises no error,
\* whatever the load state and whether or not the handle is already pending; a
\* pass that meets both entries of a handle that was enqueued twice removes both
\* and invokes the primitive twice, but the second invocation panics: the
\* texture is converted once.
C9_NoDedupSecondCallPanics ==
    [][/\ C9_Appends
       /\ \A r \in Refs : C9_TwicePending(r) =>
             /\ Count(r, handles') = 0
             /\ invoked'[r] = 2
             /\ converted'[r] = 1
             /\ textures'[r] = SkyboxLayers
             /\ panicked']_vars

\* A pass has met both entries of a handle that was enqueued twice before its
\* texture was converted.
C9_Witness ==
    /\ AfterPass
    /\ \E r \in Refs :
          /\ enqueued[r] = 2 /\ Count(r, prev) = 2 /\ Count(r, looked) = 2
          /\ Count(r, handles) = 0 /\ invoked[r] = 2

\* ------------------------------------------------------------------ C10
\* C10 as stated: every pass looks up every entry that was in the queue when it
\* started exactly once, in queue order.
C10_AsStated == AfterPass => looked = prev

\* C10 (amended): every pass ends, by returning or by the panic of the
\* primitive.  A pass that returns has looked up every entry that was in the
\* queue when it started exactly once, in queue order; a pass that panics has
\* done so for the entries up to the second entry of an already converted
\* texture, and for none behind it.
C10_OneLookupPerEntry ==
    AfterPass =>
        /\ IsPrefix(looked, prev)
        /\ ~panicked => looked = prev
        /\ panicked =>
              /\ Len(looked) >= 1
              /\ textures[looked[Len(looked)]] = SkyboxLayers
              /\ invoked[looked[Len(looked)]] = 2

\* A returned pass removed the first entry, kept the second, which is not
\* loaded, and removed the third.
C10_Witness ==
    /\ AfterPass
    /\ ~panicked
    /\ Len(prev) >= 3
    /\ Resident(textures, prev[1]) /\ ~Resident(textures, prev[2])
    /\ Resident(textures, prev[3])
    /\ looked = prev
    /\ Len(handles) = Len(prev) - 2

\* ------------------------------------------------------------------ C11
\* The entries of seq whose texture the asset store t does not hold, in order.
RECURSIVE C11_NotLoaded(_, _)
C11_NotLoaded(seq, t) ==
    IF seq = <<>> THEN <<>>
    ELSE IF Resident(t, Head(seq)) THEN C11_NotLoaded(Tail(seq), t)
    ELSE <<Head(seq)>> \o C11_NotLoaded(Tail(seq), t)

\* C11 as stated: after a pass the queue is the queue from before the pass
\* filtered to the entries whose texture is not loaded, in their original order.
C11_AsStated == AfterPass => handles = C11_NotLoaded(prev, textures)

\* C11 (amended): entries are examined front to back.  After a pass that returns
\* the queue is the queue from before the pass filtered to the entries whose
\* texture is not loaded, in their original order.  After a pass that panicked
\* this holds for the entries it examined; the entries behind the one it
\* panicked on are left as they were, loaded or not.
C11_QueueIsOrderedFilter ==
    AfterPass =>
        LET n == Len(looked)
        IN  /\ IsPrefix(looked, prev)
            /\ ~panicked => handles = C11_NotLoaded(prev, textures)
            /\ handles = C11_NotLoaded(SubSeq(prev, 1, n), textures)
                             \o SubSeq(prev, n + 1, Len(prev))

\* A returned pass removed a loaded entry from the front of the queue and left
\* two different entries that are not loaded behind it, in their order.
C11_Witness ==
    /\ AfterPass
    /\ ~panicked
    /\ Len(prev) = 3 /\ Len(handles) = 2
    /\ Resident(textures, prev[1])
    /\ handles[1] = prev[2] /\ handles[2] = prev[3]
    /\ handles[1] # handles[2]

\* ------------------------------------------------------------------ C12
\* C12 as stated: for every handle the make_array calls made so far are the
\* entries it has in the queue plus the conversions applied to its texture; no
\* entry leaves the queue without a conversion, and a texture that was never
\* enqueued is never converted.
C12_AsStated ==
    \A r \in Refs :
        /\ enqueued[r] = Count(r, handles) + converted[r]
        /\ enqueued[r] = 0 => converted[r] = 0

\* The handle the latest pass panicked on.
C12_PanickedOn(r) ==
    panicked /\ Len(looked) >= 1 /\ looked[Len(looked)] = r

\* C12 (amended): for every handle the make_array calls made so far are the
\* entries it has in the queue plus the invocations of the primitive on its
\* texture: an entry is removed exactly when the primitive is invoked, in the
\* same pass, and a texture that was never enqueued is never converted.  Every
\* invocation is a conversion, except the one a pass panicked in: after that
\* pass the handle it panicked on has lost one entry without a conversion.
C12_Conservation ==
    \A r \in Refs :
        /\ enqueued[r] = Count(r, handles) + invoked[r]
        /\ enqueued[r] = 0 => (invoked[r] = 0 /\ converted[r] = 0)
        /\ invoked[r] = converted[r] + (IF C12_PanickedOn(r) THEN 1 ELSE 0)
        /\ ~panicked => enqueued[r] = Count(r, handles) + converted[r]

\* One handle has been enqueued, loaded and converted by a pass; another one has
\* been enqueued twice since and is pending twice.
C12_Witness ==
    /\ lastOp = "make_array"
    /\ \E r1, r2 \in Refs :
          /\ enqueued[r1] = 1 /\ converted[r1] = 1 /\ Count(r1, handles) = 0
          /\ enqueued[r2] = 2 /\ converted[r2] = 0 /\ Count(r2, handles) = 2

====
